---- MODULE Spec2Model ----
(***************************************************************************)
(* Model of the problematic-dialog classifier (src/main.go): main fans out *)
(* one goroutine per dialog folder, every goroutine runs                   *)
(* analyzeDialogFolder and sends a non-nil result on the buffered channel  *)
(* problematicDialogs, a closer goroutine closes the channel after         *)
(* wg.Wait(), and main consumes the channel, materializes every dialog and *)
(* then prints the statistics and writes the index.                        *)
(*                                                                         *)
(* Go strings are sequences of one-character strings, so that ToLower,     *)
(* HasPrefix, Contains, EqualFold, the file-name pattern and sort.Strings  *)
(* are computed character by character.                                    *)
(***************************************************************************)
EXTENDS Integers, Sequences, FiniteSets, TLC

\* ------------------------------------------------------------------ bounds

\* Largest number of entries in the input root directory.
MaxFolders == 3

\* Capacity of the channel problematicDialogs.  The source makes it 100
\* (main.go:76); the model scales it down so that runs with more non-nil
\* results than the capacity are reached.
ChanCap == 1

\* Number of triggers the trigger ranking prints.  The source makes it 10
\* (main.go:333); the model scales it down so that runs with more distinct
\* triggers than the ranking prints are reached.
TopTriggers == 2

\* ----------------------------------------------------------------- strings

UpperChars == <<"A","B","C","D","E","F","G","H","I","J","K","L","M","N","O","P","Q","R","S","T","U","V","W","X","Y","Z">>
LowerChars == <<"a","b","c","d","e","f","g","h","i","j","k","l","m","n","o","p","q","r","s","t","u","v","w","x","y","z">>
DigitChars == <<"0","1","2","3","4","5","6","7","8","9">>

\* The characters of the model's strings in byte order (space, '-', '.',
\* digits, upper case, '_', lower case).
CharOrder == <<" ","-",".">> \o DigitChars \o UpperChars \o <<"_">> \o LowerChars

Range(s) == {s[i] : i \in 1..Len(s)}

IsUpper(c) == c \in Range(UpperChars)
IsDigit(c) == c \in Range(DigitChars)
IsWordChar(c) == c \in Range(UpperChars) \cup Range(LowerChars) \cup Range(DigitChars) \cup {"_"}

CharRank(c) == CHOOSE i \in 1..Len(CharOrder) : CharOrder[i] = c

ToLowerChar(c) ==
    IF IsUpper(c) THEN LowerChars[CHOOSE i \in 1..26 : UpperChars[i] = c] ELSE c

\* strings.ToLower
ToLower(s) == [i \in 1..Len(s) |-> ToLowerChar(s[i])]

\* strings.EqualFold (simple case folding; on letters, digits and
\* punctuation of the model it is equality of the lower-cased strings)
EqualFold(a, b) == ToLower(a) = ToLower(b)

\* strings.HasPrefix
HasPrefix(s, p) == Len(s) >= Len(p) /\ SubSeq(s, 1, Len(p)) = p

\* sub occurs in s at position i
OccursAt(s, sub, i) == i >= 1 /\ i + Len(sub) - 1 <= Len(s) /\ SubSeq(s, i, i + Len(sub) - 1) = sub

\* strings.Contains
Contains(s, sub) == \E i \in 1..(Len(s) + 1) : OccursAt(s, sub, i)

\* a < b in byte-wise lexicographic order (the order of sort.Strings and of
\* the names returned by ioutil.ReadDir)
StrLess(a, b) ==
    \E k \in 0..Len(a) :
        /\ k <= Len(b)
        /\ \A i \in 1..k : a[i] = b[i]
        /\ \/ k = Len(a) /\ k < Len(b)
           \/ k < Len(a) /\ k < Len(b) /\ CharRank(a[k + 1]) < CharRank(b[k + 1])

\* The permutations of a finite set, as sequences.
Perms(S) == {p \in [1..Cardinality(S) -> S] : \A i, j \in 1..Cardinality(S) : p[i] = p[j] => i = j}

\* sort.Strings (an insertion sort: the result is the ascending arrangement
\* of the elements of s)
RECURSIVE InsertSorted(_, _)
InsertSorted(x, s) ==
    IF s = <<>> THEN <<x>>
    ELSE IF StrLess(Head(s), x) THEN <<Head(s)>> \o InsertSorted(x, Tail(s))
    ELSE <<x>> \o s

RECURSIVE SortStrings(_)
SortStrings(s) == IF s = <<>> THEN <<>> ELSE InsertSorted(Head(s), SortStrings(Tail(s)))

\* -------------------------------------------------- the file-name pattern

ConvPrefix == <<"c","o","n","v","_">>

\* convFilePattern matches s at position i with the group ending at e:
\* "conv_", one or more upper-case letters, '-', one or more digits, '_'.
ConvMatchAt(s, i, e) ==
    /\ OccursAt(s, ConvPrefix, i)
    /\ e + 1 <= Len(s)
    /\ s[e + 1] = "_"
    /\ \E m \in (i + 6)..(e - 1) :
          /\ s[m] = "-"
          /\ \A k \in (i + 5)..(m - 1) : IsUpper(s[k])
          /\ \A k \in (m + 1)..e : IsDigit(s[k])

\* convFilePattern.FindStringSubmatch(s): <<>> when there is no match, else
\* <<whole match, group 1>> of the leftmost match.
convFilePattern(s) ==
    LET hits == {p \in (1..Len(s)) \X (1..Len(s)) : ConvMatchAt(s, p[1], p[2])}
    IN  IF hits = {} THEN <<>>
        ELSE LET h == CHOOSE p \in hits : \A q \in hits : p[1] <= q[1]
             IN  <<SubSeq(s, h[1], h[2] + 1), SubSeq(s, h[1] + 5, h[2])>>

\* ------------------------------------------- configuration (problemTypes)

KeyBill == <<"b","i","l","l">>
KeyTech == <<"t","e","c","h">>

\* The process-wide table of problem types after initializeProblemTypes and
\* CleanTriggers: key -> display name and configured trigger strings.  Two
\* types configure the same word in different casing.
problemTypes ==
    (KeyBill :> [Name |-> <<"B","i","l","l","i","n","g">>,
                 Triggers |-> << <<"F","e","e">>, <<"p","a","y">> >>])
    @@
    (KeyTech :> [Name |-> <<"T","e","c","h","n","i","c","a","l">>,
                 Triggers |-> << <<"b","u","g">>, <<"f","e","e">> >>])

TypeKeys == DOMAIN problemTypes

\* trig occurs in text as a whole word (not inside a longer word)
WholeWordOccurs(text, trig) ==
    \E i \in 1..Len(text) :
        /\ OccursAt(text, trig, i)
        /\ (i = 1 \/ ~IsWordChar(text[i - 1]))
        /\ (i + Len(trig) > Len(text) \/ ~IsWordChar(text[i + Len(trig)]))

RECURSIVE SelectMatches(_, _)
SelectMatches(text, trigs) ==
    IF trigs = <<>> THEN <<>>
    ELSE (IF WholeWordOccurs(text, ToLower(Head(trigs))) THEN <<Head(trigs)>> ELSE <<>>)
         \o SelectMatches(text, Tail(trigs))

\* FindPatternMatches(text, typeKey): the configured trigger strings of the
\* type that occur in the (lower-cased) text as whole words, each once.
FindPatternMatches(text, typeKey) == SelectMatches(text, problemTypes[typeKey].Triggers)

\* ------------------------------------------------------------ the input

Msg(uid, text) == [UserID |-> uid, Text |-> text]

\* A file of a dialog folder: its name and what reading it gives: "json" (a
\* document that json.Unmarshal accepts, with its messages), "garbage" (read
\* but rejected by json.Unmarshal) or "unreadable" (ioutil.ReadFile fails).
JsonFile(name, msgs) == [Name |-> name, Kind |-> "json", Messages |-> msgs]
BadFile(name, kind) == [Name |-> name, Kind |-> kind, Messages |-> <<>>]

User1 == <<"u","s","e","r","_","1">>
Op2 == <<"o","p","_","2">>

\* The entries the input root may hold, in the order of their names (the
\* order ioutil.ReadDir returns them in); the files of each likewise.
\*   1 AAA-1      a client message matching both types, an operator message
\*   2 BBB-2      operator messages only, and an unreadable transcript
\*   3 CCC-3      two transcripts whose names carry different IDs
\*   4 FFF-6      a transcript named conv_EEE-5_, then one without an ID
\*                that does not parse
\*   5 GGG-7      a folder whose file list cannot be read
\*   6 readme.txt not a directory
Catalogue ==
    << [Name |-> <<"A","A","A","-","1">>, IsDir |-> TRUE, Listable |-> TRUE,
        Files |-> << JsonFile(<<"c","o","n","v","_","A","A","A","-","1","_","c","h","a","t",".","j","s","o","n">>,
                              << Msg(User1, <<"P","a","y"," ","f","e","e">>),
                                 Msg(Op2, <<"b","u","g">>) >>),
                     JsonFile(<<"c","o","n","v","_","A","A","A","-","1","_","i","n","f","o",".","j","s","o","n">>, <<>>) >>],
       [Name |-> <<"B","B","B","-","2">>, IsDir |-> TRUE, Listable |-> TRUE,
        Files |-> << JsonFile(<<"c","o","n","v","_","B","B","B","-","2","_","c","h","a","t",".","j","s","o","n">>,
                              << Msg(Op2, <<"f","e","e"," ","b","u","g">>) >>),
                     BadFile(<<"z","z","_","c","h","a","t",".","j","s","o","n">>, "unreadable") >>],
       [Name |-> <<"C","C","C","-","3">>, IsDir |-> TRUE, Listable |-> TRUE,
        Files |-> << JsonFile(<<"c","o","n","v","_","C","C","C","-","3","_","c","h","a","t",".","j","s","o","n">>,
                              << Msg(User1, <<"B","U","G">>) >>),
                     JsonFile(<<"c","o","n","v","_","D","D","D","-","4","_","c","h","a","t",".","j","s","o","n">>,
                              << Msg(User1, <<"f","e","e","s">>) >>) >>],
       [Name |-> <<"F","F","F","-","6">>, IsDir |-> TRUE, Listable |-> TRUE,
        Files |-> << JsonFile(<<"c","o","n","v","_","E","E","E","-","5","_","c","h","a","t",".","j","s","o","n">>,
                              << Msg(User1, <<"p","a","y">>), Msg(User1, <<"F","E","E","S">>) >>),
                     BadFile(<<"n","o","t","e","s","_","c","h","a","t",".","j","s","o","n">>, "garbage") >>],
       [Name |-> <<"G","G","G","-","7">>, IsDir |-> TRUE, Listable |-> FALSE, Files |-> <<>>],
       [Name |-> <<"r","e","a","d","m","e",".","t","x","t">>, IsDir |-> FALSE, Listable |-> FALSE, Files |-> <<>>] >>

\* The ascending sequence of the elements of a set of numbers.
RECURSIVE Ascending(_)
Ascending(S) ==
    IF S = {} THEN <<>>
    ELSE LET m == CHOOSE x \in S : \A y \in S : x <= y
         IN  <<m>> \o Ascending(S \ {m})

\* The listings of the input root: every choice of at most MaxFolders
\* catalogue entries, in name order.
RootListings ==
    {[i \in 1..Cardinality(S) |-> Catalogue[Ascending(S)[i]]] :
        S \in {T \in SUBSET (1..Len(Catalogue)) : Cardinality(T) <= MaxFolders}}

\* ----------------------------------------------------- analyzeDialogFolder

\* The orders in which a range over the map problemTypes may visit its keys.
TypeOrders == Perms(TypeKeys)

\* The positions <<file, message>> of a folder: one range over problemTypes
\* runs for each, in an order of its own.
Positions(folder) ==
    UNION {{<<fi, mi>> : mi \in 1..Len(folder.Files[fi].Messages)} : fi \in 1..Len(folder.Files)}

\* The local state of a scan (main.go:173-175), with the log of every
\* match in the order the scan met it (seen, which the code does not keep).
ScanStart == [dialogID |-> <<>>, foundTypes |-> {}, foundTriggers |-> <<>>, seen |-> <<>>]

\* Faulty variant of TriggerExists: the recorded triggers are compared exactly, not
\* under case folding.
TriggerExistsExact(foundTriggers, match) ==
    \E i \in 1..Len(foundTriggers) : foundTriggers[i] = match

\* main.go:220-226: some recorded trigger equals match under case folding
TriggerExists(foundTriggers, match) ==
    \E i \in 1..Len(foundTriggers) : EqualFold(foundTriggers[i], match)

\* main.go:219-230: record the matches that are not recorded yet
RECURSIVE AddMatches(_, _)
AddMatches(st, matches) ==
    IF matches = <<>> THEN st
    ELSE LET match == Head(matches)
             st1 == [st EXCEPT !.seen = Append(@, match),
                               !.foundTriggers = IF TriggerExists(@, match) THEN @
                                                 ELSE Append(@, match)]
         IN  AddMatches(st1, Tail(matches))

\* main.go:211-231: the range over problemTypes for one lower-cased text,
\* visiting the keys in the order keys
RECURSIVE ScanTypes(_, _, _)
ScanTypes(st, text, keys) ==
    IF keys = <<>> THEN st
    ELSE LET typeKey == Head(keys)
             matches == FindPatternMatches(text, typeKey)
             st1 == IF Len(matches) = 0 THEN st
                    ELSE AddMatches([st EXCEPT !.foundTypes = @ \cup {typeKey}], matches)
         IN  ScanTypes(st1, text, Tail(keys))

\* Faulty variant of IsClientMessage: the author of the message is not looked at.
AnyMessage(msg) == Len(msg.UserID) >= 0

\* main.go:204: the message is from a client
IsClientMessage(msg) == HasPrefix(msg.UserID, <<"u","s","e","r","_">>)

\* main.go:202-232: the messages of one transcript from index mi on
RECURSIVE ScanMessages(_, _, _, _, _)
ScanMessages(st, msgs, fi, mi, ord) ==
    IF mi > Len(msgs) THEN st
    ELSE LET msg == msgs[mi]
             st1 == IF ~IsClientMessage(msg) THEN st
                    ELSE ScanTypes(st, ToLower(msg.Text), ord[<<fi, mi>>])
         IN  ScanMessages(st1, msgs, fi, mi + 1, ord)

\* main.go:183-189: the dialog ID after the chat file fileName was met
NextDialogID(dialogID, fileName, folderName) ==
    LET matches == convFilePattern(fileName)
    IN  IF Len(matches) > 1 THEN matches[2] ELSE folderName

\* Faulty variant of ScanFiles: a transcript that cannot be read or parsed
\* ends the scan of the folder with nothing found.
RECURSIVE ScanFilesAbort(_, _, _, _)
ScanFilesAbort(st, folder, fi, ord) ==
    IF fi > Len(folder.Files) THEN st
    ELSE LET file == folder.Files[fi]
         IN  IF ~Contains(file.Name, <<"_","c","h","a","t",".","j","s","o","n">>)
             THEN ScanFilesAbort(st, folder, fi + 1, ord)
             ELSE IF file.Kind # "json" THEN ScanStart
             ELSE ScanFilesAbort(ScanMessages([st EXCEPT !.dialogID =
                                                   NextDialogID(@, file.Name, folder.Name)],
                                              file.Messages, fi, 1, ord),
                                 folder, fi + 1, ord)

\* main.go:177-234: the files of the folder from index fi on
RECURSIVE ScanFiles(_, _, _, _)
ScanFiles(st, folder, fi, ord) ==
    IF fi > Len(folder.Files) THEN st
    ELSE LET file == folder.Files[fi]
             st1 ==
                 IF ~Contains(file.Name, <<"_","c","h","a","t",".","j","s","o","n">>) THEN st
                 ELSE LET st2 == [st EXCEPT !.dialogID = NextDialogID(@, file.Name, folder.Name)]
                      IN  IF file.Kind # "json" THEN st2
                          ELSE ScanMessages(st2, file.Messages, fi, 1, ord)
         IN  ScanFiles(st1, folder, fi + 1, ord)

\* Faulty variant of CollectTypes: the collected keys are not sorted.
CollectUnsorted(keys) == keys

\* main.go:238-244: the keys of foundTypes, collected in the order keys and
\* then sorted
CollectTypes(keys) == SortStrings(keys)

\* analyzeDialogFolder(folderPath, folderName): <<>> for nil, else <<d>> with
\* d the ProblematicDialog; ord gives the key order of every range over
\* problemTypes and keys the order of the range over foundTypes.
ScanFolder(folder, ord) == ScanFiles(ScanStart, folder, 1, ord)

analyzeDialogFolder(folder, ord, keys) ==
    IF ~folder.Listable THEN <<>>
    ELSE LET st == ScanFolder(folder, ord)
         IN  IF Cardinality(st.foundTypes) > 0
             THEN << [FolderName |-> folder.Name,
                      ID |-> st.dialogID,
                      Types |-> CollectTypes(keys),
                      Files |-> [i \in 1..Len(folder.Files) |-> folder.Files[i].Name],
                      Triggers |-> st.foundTriggers] >>
             ELSE <<>>

\* ------------------------------------------------------------------ state

VARIABLES
    root,        \* the entries of the input root, as ioutil.ReadDir lists them
    mainPc,      \* where main is
    idx,         \* main's index into root in the dispatch loop
    task,        \* per entry of root: the goroutine scanning it
    wg,          \* the WaitGroup counter
    closerPc,    \* where the goroutine of main.go:97-100 is
    ch,          \* the buffer of the channel problematicDialogs
    closed,      \* the channel has been closed
    dialog,      \* the dialog main is processing (<<>>: none)
    typeIdx,     \* main's index into dialog.Types
    stats,       \* map typeKey -> count
    allDialogs,  \* map typeKey -> list of dialogs
    outDirs,     \* the directories created under the output base
    outFiles,    \* the files written under the output base
    printed,     \* what printStatistics printed (<<>>: not yet)
    index,       \* what createIndexFile built (<<>>: not yet)
    received,    \* log: the dialogs main received, in arrival order
    mkdirFailed  \* log: the <<typeKey, folder>> whose directory could not be made

vars == <<root, mainPc, idx, task, wg, closerPc, ch, closed, dialog, typeIdx,
          stats, allDialogs, outDirs, outFiles, printed, index, received, mkdirFailed>>

\* A Go map is a function on the keys it holds; a missing key reads as the
\* zero value.
EmptyMap == [k \in {} |-> 0]
MapPut(m, k, v) == [x \in (DOMAIN m) \cup {k} |-> IF x = k THEN v ELSE m[x]]
Count(m, k) == IF k \in DOMAIN m THEN m[k] ELSE 0
List(m, k) == IF k \in DOMAIN m THEN m[k] ELSE <<>>

Tasks == 1..Len(root)

NewTask == [pc |-> "none", res |-> <<>>, seen |-> <<>>, scans |-> 0]

Init ==
    /\ root \in RootListings
    /\ mainPc = "start"
    /\ idx = 1
    /\ task = [i \in 1..Len(root) |-> NewTask]
    /\ wg = 0
    /\ closerPc = "none"
    /\ ch = <<>>
    /\ closed = FALSE
    /\ dialog = <<>>
    /\ typeIdx = 1
    /\ stats = EmptyMap
    /\ allDialogs = EmptyMap
    /\ outDirs = {}
    /\ outFiles = {}
    /\ printed = <<>>
    /\ index = <<>>
    /\ received = <<>>
    /\ mkdirFailed = {}

\* ------------------------------------------------------------------- main

\* Faulty variant of CreateTypeDirs: a type directory that cannot be made is
\* reported and the run goes on.
CreateTypeDirsGoOn ==
    /\ mainPc = "start"
    /\ \E made \in SUBSET TypeKeys : outDirs' = outDirs \cup {<<k>> : k \in made}
    /\ mainPc' = "list"
    /\ UNCHANGED <<root, idx, task, wg, closerPc, ch, closed, dialog, typeIdx, stats,
                   allDialogs, outFiles, printed, index, received, mkdirFailed>>

\* main.go:59-66: a directory per problem type, made in the order keys of
\* the range over problemTypes; the first failure ends the run.
CreateTypeDirs ==
    /\ mainPc = "start"
    /\ \E keys \in TypeOrders : \E n \in 0..Len(keys) :
          /\ outDirs' = outDirs \cup {<<keys[i]>> : i \in 1..n}
          /\ mainPc' = IF n = Len(keys) THEN "list" ELSE "exit"
    /\ UNCHANGED <<root, idx, task, wg, closerPc, ch, closed, dialog, typeIdx, stats,
                   allDialogs, outFiles, printed, index, received, mkdirFailed>>

\* main.go:69-73: list the input root; a failure ends the run.
ListRoot ==
    /\ mainPc = "list"
    /\ mainPc' \in {"dispatch", "exit"}
    /\ UNCHANGED <<root, idx, task, wg, closerPc, ch, closed, dialog, typeIdx, stats,
                   allDialogs, outDirs, outFiles, printed, index, received, mkdirFailed>>

\* main.go:80-94: one iteration of the loop over folders: an entry that is
\* no directory is skipped, a directory gets a goroutine of its own.
Dispatch ==
    /\ mainPc = "dispatch"
    /\ idx <= Len(root)
    /\ IF root[idx].IsDir
       THEN /\ wg' = wg + 1
            /\ task' = [task EXCEPT ![idx].pc = "scan"]
       ELSE UNCHANGED <<wg, task>>
    /\ idx' = idx + 1
    /\ UNCHANGED <<root, mainPc, closerPc, ch, closed, dialog, typeIdx, stats,
                   allDialogs, outDirs, outFiles, printed, index, received, mkdirFailed>>

\* main.go:96-104: after the loop, start the goroutine that waits and
\* closes, and make the empty aggregate.
StartCloser ==
    /\ mainPc = "dispatch"
    /\ idx > Len(root)
    /\ closerPc' = "wait"
    /\ stats' = EmptyMap
    /\ allDialogs' = EmptyMap
    /\ mainPc' = "recv"
    /\ UNCHANGED <<root, idx, task, wg, ch, closed, dialog, typeIdx,
                   outDirs, outFiles, printed, index, received, mkdirFailed>>

\* Faulty variant of Receive: main waits for the goroutines (the channel closed)
\* before it starts to range over the channel.
ReceiveAfterWait ==
    /\ mainPc = "recv"
    /\ closed
    /\ Len(ch) > 0
    /\ dialog' = <<Head(ch)>>
    /\ ch' = Tail(ch)
    /\ received' = Append(received, Head(ch))
    /\ typeIdx' = 1
    /\ mainPc' = "types"
    /\ UNCHANGED <<root, idx, task, wg, closerPc, closed, stats, allDialogs,
                   outDirs, outFiles, printed, index, mkdirFailed>>

\* main.go:107: the range over the channel takes the next dialog.
Receive ==
    /\ mainPc = "recv"
    /\ Len(ch) > 0
    /\ dialog' = <<Head(ch)>>
    /\ ch' = Tail(ch)
    /\ received' = Append(received, Head(ch))
    /\ typeIdx' = 1
    /\ mainPc' = "types"
    /\ UNCHANGED <<root, idx, task, wg, closerPc, closed, stats, allDialogs,
                   outDirs, outFiles, printed, index, mkdirFailed>>

\* Faulty variant of EndOfStream: the loop ends as soon as it finds the
\* channel empty.
EndOfStreamWhenEmpty ==
    /\ mainPc = "recv"
    /\ Len(ch) = 0
    /\ mainPc' = "stats"
    /\ UNCHANGED <<root, idx, task, wg, closerPc, ch, closed, dialog, typeIdx, stats,
                   allDialogs, outDirs, outFiles, printed, index, received, mkdirFailed>>

\* main.go:107: the range over the channel ends once the channel is closed
\* and empty.
EndOfStream ==
    /\ mainPc = "recv"
    /\ Len(ch) = 0
    /\ closed
    /\ mainPc' = "stats"
    /\ UNCHANGED <<root, idx, task, wg, closerPc, ch, closed, dialog, typeIdx, stats,
                   allDialogs, outDirs, outFiles, printed, index, received, mkdirFailed>>

\* Faulty variant of IncStats: the count is set, not incremented.
SetStats(st, typeKey) == MapPut(st, typeKey, 1)

\* main.go:110: stats[typeKey]++
IncStats(st, typeKey) == MapPut(st, typeKey, Count(st, typeKey) + 1)

\* Faulty variant of AppendDialog: the list of the type is replaced, not extended.
ReplaceDialogs(all, typeKey, d) == MapPut(all, typeKey, <<d>>)

\* main.go:148: allDialogs[typeKey] = append(allDialogs[typeKey], dialog)
AppendDialog(all, typeKey, d) == MapPut(all, typeKey, Append(List(all, typeKey), d))

\* main.go:120-128: the files of the dialog that ioutil.ReadFile can read
\* from the source folder
ReadableFiles(d) ==
    LET folder == CHOOSE f \in Range(root) : f.Name = d.FolderName
    IN  {folder.Files[i].Name : i \in {j \in 1..Len(folder.Files) : folder.Files[j].Kind # "unreadable"}}

TriggerInfoName == <<"t","r","i","g","g","e","r","_","i","n","f","o",".","t","x","t">>

\* Faulty variant of InfoContent: the folder name is written as the ID.
InfoContentFolderAsID(d, typeKey) ==
    [ID |-> d.FolderName, Type |-> problemTypes[typeKey].Name, Folder |-> d.FolderName,
     Triggers |-> d.Triggers]

\* main.go:137-142: the content of trigger_info.txt
InfoContent(d, typeKey) ==
    [ID |-> d.ID, Type |-> problemTypes[typeKey].Name, Folder |-> d.FolderName,
     Triggers |-> d.Triggers]

\* main.go:109-149: one iteration of the loop over dialog.Types.  The count
\* of the type goes up first; when the directory of the dialog cannot be
\* made the iteration ends there (continue); else the readable files are
\* copied, trigger_info.txt is written and the dialog is appended to the
\* list of the type.  A write that fails (main.go:130-133, 144-146) prints
\* a message and changes nothing else: of the writes the model keeps the
\* runs in which they succeed.
ProcessType ==
    /\ mainPc = "types"
    /\ typeIdx <= Len(dialog[1].Types)
    /\ LET d == dialog[1]
           typeKey == d.Types[typeIdx]
           dir == <<typeKey, d.FolderName>>
       IN  /\ stats' = IncStats(stats, typeKey)
           /\ \/ /\ mkdirFailed' = mkdirFailed \cup {dir}
                 /\ UNCHANGED <<outDirs, outFiles, allDialogs>>
              \/ /\ outDirs' = outDirs \cup {dir}
                 /\ outFiles' = outFiles
                       \cup {[Dir |-> dir, Name |-> n, Info |-> <<>>] : n \in ReadableFiles(d)}
                       \cup {[Dir |-> dir, Name |-> TriggerInfoName,
                              Info |-> <<InfoContent(d, typeKey)>>]}
                 /\ allDialogs' = AppendDialog(allDialogs, typeKey, d)
                 /\ UNCHANGED mkdirFailed
    /\ typeIdx' = typeIdx + 1
    /\ UNCHANGED <<root, mainPc, idx, task, wg, closerPc, ch, closed, dialog,
                   printed, index, received>>

\* main.go:109/150: the loop over dialog.Types is over; back to the channel.
NextDialog ==
    /\ mainPc = "types"
    /\ typeIdx > Len(dialog[1].Types)
    /\ dialog' = <<>>
    /\ mainPc' = "recv"
    /\ UNCHANGED <<root, idx, task, wg, closerPc, ch, closed, typeIdx, stats, allDialogs,
                   outDirs, outFiles, printed, index, received, mkdirFailed>>

\* ------------------------------------------------------------- goroutines

\* What a call of analyzeDialogFolder on the folder may give, over the key
\* orders of its ranges over problemTypes and over foundTypes: the result
\* and the log of the matches met.
ScanOutcomes(folder) ==
    UNION {LET st == ScanFolder(folder, ord)
           IN  {[res |-> analyzeDialogFolder(folder, ord, keys),
                 seen |-> IF folder.Listable THEN st.seen ELSE <<>>] : keys \in Perms(st.foundTypes)}
           : ord \in [Positions(folder) -> TypeOrders]}

\* The outcomes for every entry the input root may hold.
Outcomes == [c \in 1..Len(Catalogue) |-> ScanOutcomes(Catalogue[c])]

OutcomesOf(folder) == Outcomes[CHOOSE c \in 1..Len(Catalogue) : Catalogue[c] = folder]

\* main.go:86-90: the goroutine of entry i calls analyzeDialogFolder; a nil
\* result ends it (the deferred wg.Done runs).
Scan(i) ==
    /\ i \in Tasks
    /\ task[i].pc = "scan"
    /\ \E o \in OutcomesOf(root[i]) :
          /\ task' = [task EXCEPT ![i] = [pc |-> IF o.res = <<>> THEN "done" ELSE "send",
                                           res |-> o.res,
                                           seen |-> o.seen,
                                           scans |-> @.scans + 1]]
          /\ wg' = IF o.res = <<>> THEN wg - 1 ELSE wg
    /\ UNCHANGED <<root, mainPc, idx, closerPc, ch, closed, dialog, typeIdx, stats, allDialogs,
                   outDirs, outFiles, printed, index, received, mkdirFailed>>

\* Faulty variant of Send: a send that finds the buffer full drops the result
\* instead of blocking.
SendOrDrop(i) ==
    /\ i \in Tasks
    /\ task[i].pc = "send"
    /\ ~closed
    /\ ch' = IF Len(ch) < ChanCap THEN Append(ch, task[i].res[1]) ELSE ch
    /\ task' = [task EXCEPT ![i].pc = "done"]
    /\ wg' = wg - 1
    /\ UNCHANGED <<root, mainPc, idx, closerPc, closed, dialog, typeIdx, stats, allDialogs,
                   outDirs, outFiles, printed, index, received, mkdirFailed>>

\* Faulty variant of Send: the goroutine counts its dialog itself, under
\* the first of its types, when it sends it.
SendAndCount(i) ==
    /\ i \in Tasks
    /\ task[i].pc = "send"
    /\ ~closed
    /\ Len(ch) < ChanCap
    /\ ch' = Append(ch, task[i].res[1])
    /\ stats' = IncStats(stats, task[i].res[1].Types[1])
    /\ task' = [task EXCEPT ![i].pc = "done"]
    /\ wg' = wg - 1
    /\ UNCHANGED <<root, mainPc, idx, closerPc, closed, dialog, typeIdx, allDialogs,
                   outDirs, outFiles, printed, index, received, mkdirFailed>>

\* main.go:91: the send blocks while the buffer is full; then the deferred
\* wg.Done runs.
Send(i) ==
    /\ i \in Tasks
    /\ task[i].pc = "send"
    /\ ~closed
    /\ Len(ch) < ChanCap
    /\ ch' = Append(ch, task[i].res[1])
    /\ task' = [task EXCEPT ![i].pc = "done"]
    /\ wg' = wg - 1
    /\ UNCHANGED <<root, mainPc, idx, closerPc, closed, dialog, typeIdx, stats, allDialogs,
                   outDirs, outFiles, printed, index, received, mkdirFailed>>

\* Faulty variant of CloseChannel: the channel is closed without waiting
\* for the goroutines.
CloseChannelNoWait ==
    /\ closerPc = "wait"
    /\ closed' = TRUE
    /\ closerPc' = "done"
    /\ UNCHANGED <<root, mainPc, idx, task, wg, ch, dialog, typeIdx, stats, allDialogs,
                   outDirs, outFiles, printed, index, received, mkdirFailed>>

\* main.go:97-100: wg.Wait() returns once the counter is zero; then the
\* channel is closed.
CloseChannel ==
    /\ closerPc = "wait"
    /\ wg = 0
    /\ closed' = TRUE
    /\ closerPc' = "done"
    /\ UNCHANGED <<root, mainPc, idx, task, wg, ch, dialog, typeIdx, stats, allDialogs,
                   outDirs, outFiles, printed, index, received, mkdirFailed>>

\* -------------------------------------------------------------- reporting

\* Number of example dialogs printed per type (main.go:289).
ExampleCount == 3

\* Faulty variant of FirstN: the list is not cut.
NoLimit(s, n) == s

\* main.go:289/333: the first n items of a list
FirstN(s, n) == SubSeq(s, 1, IF Len(s) < n THEN Len(s) ELSE n)

\* Faulty variant of InsertByCount: the comparison is "Count less".
RECURSIVE InsertByCountAscending(_, _)
InsertByCountAscending(x, s) ==
    IF s = <<>> THEN <<x>>
    ELSE IF x.Count < Head(s).Count THEN <<x>> \o s
    ELSE <<Head(s)>> \o InsertByCountAscending(x, Tail(s))

\* sort.Slice with the comparison "Count greater" (main.go:274-276 and
\* 327-329), on the short lists of a run: an insertion sort, which leaves
\* items of equal count in the order they had.
RECURSIVE InsertByCount(_, _)
InsertByCount(x, s) ==
    IF s = <<>> THEN <<x>>
    ELSE IF x.Count > Head(s).Count THEN <<x>> \o s
    ELSE <<Head(s)>> \o InsertByCount(x, Tail(s))

RECURSIVE SortByCount(_)
SortByCount(s) ==
    IF s = <<>> THEN <<>>
    ELSE InsertByCount(s[Len(s)], SortByCount(SubSeq(s, 1, Len(s) - 1)))

RECURSIVE SumCounts(_)
SumCounts(s) == IF s = <<>> THEN 0 ELSE Head(s).Count + SumCounts(Tail(s))

\* main.go:305-312: triggerStats[trigger]++ for every trigger of every
\* dialog of every list of allDialogs: the number of <<type, position in the
\* list of the type, position in the trigger list>> that hold the trigger.
TriggerStats(all) ==
    LET occ == UNION {UNION {{<<k, i, j>> : j \in 1..Len(all[k][i].Triggers)}
                                : i \in 1..Len(all[k])} : k \in DOMAIN all}
        trig(o) == all[o[1]][o[2]].Triggers[o[3]]
    IN  [t \in {trig(o) : o \in occ} |-> Cardinality({o \in occ : trig(o) = t})]

\* main.go:259-336: printStatistics.  typeOrder and trigOrder are the orders
\* in which the ranges over stats and over triggerStats visit their keys.
PrintedStatistics(st, all, typeOrder, trigOrder) ==
    LET statsList == SortByCount([i \in 1..Len(typeOrder) |->
                                    [TypeKey |-> typeOrder[i], Count |-> st[typeOrder[i]]]])
        triggerStats == TriggerStats(all)
        triggerList == SortByCount([i \in 1..Len(trigOrder) |->
                                      [Trigger |-> trigOrder[i], Count |-> triggerStats[trigOrder[i]]]])
    IN  [statsList |-> statsList,
         examples |-> [k \in {x \in DOMAIN all : Len(all[x]) > 0} |->
                          FirstN([i \in 1..Len(all[k]) |-> all[k][i].FolderName], ExampleCount)],
         total |-> SumCounts(statsList),
         triggerStats |-> triggerStats,
         top |-> FirstN(triggerList, TopTriggers)]

PrintStatistics ==
    /\ mainPc = "stats"
    /\ \E typeOrder \in Perms(DOMAIN stats) :
       \E trigOrder \in Perms(DOMAIN TriggerStats(allDialogs)) :
          printed' = <<PrintedStatistics(stats, allDialogs, typeOrder, trigOrder)>>
    /\ mainPc' = "index"
    /\ UNCHANGED <<root, idx, task, wg, closerPc, ch, closed, dialog, typeIdx, stats,
                   allDialogs, outDirs, outFiles, index, received, mkdirFailed>>

\* main.go:346-367: the sections of INDEX.md, one per key of stats in the
\* order typeOrder, and the total.
IndexContent(st, all, typeOrder) ==
    LET sections == [i \in 1..Len(typeOrder) |->
                        LET k == typeOrder[i]
                        IN  [TypeKey |-> k, Name |-> problemTypes[k].Name, Count |-> st[k],
                             Dialogs |-> [j \in 1..Len(List(all, k)) |-> all[k][j].FolderName]]]
    IN  [sections |-> sections, total |-> SumCounts(sections)]

\* main.go:339-396: createIndexFile builds the index and writes INDEX.md;
\* main returns.
CreateIndexFile ==
    /\ mainPc = "index"
    /\ \E typeOrder \in Perms(DOMAIN stats) :
          index' = <<IndexContent(stats, allDialogs, typeOrder)>>
    /\ mainPc' = "done"
    /\ UNCHANGED <<root, idx, task, wg, closerPc, ch, closed, dialog, typeIdx, stats,
                   allDialogs, outDirs, outFiles, printed, received, mkdirFailed>>

\* ---------------------------------------------------------- specification

Next ==
    \/ CreateTypeDirs
    \/ ListRoot
    \/ Dispatch
    \/ StartCloser
    \/ Receive
    \/ EndOfStream
    \/ ProcessType
    \/ NextDialog
    \/ PrintStatistics
    \/ CreateIndexFile
    \/ CloseChannel
    \/ \E i \in Tasks : Scan(i)
    \/ \E i \in Tasks : Send(i)

Spec == Init /\ [][Next]_vars

\* The Go scheduler runs every goroutine that can take a step: main, the
\* closer and every scan goroutine keep moving while they are not blocked.
MainStep ==
    \/ CreateTypeDirs \/ ListRoot \/ Dispatch \/ StartCloser \/ Receive \/ EndOfStream
    \/ ProcessType \/ NextDialog \/ PrintStatistics \/ CreateIndexFile

FairSpec ==
    /\ Init /\ [][Next]_vars
    /\ WF_vars(MainStep)
    /\ WF_vars(CloseChannel)
    /\ \A i \in 1..MaxFolders : WF_vars(Scan(i) \/ Send(i))

\* ------------------------------------------ what the input alone determines

\* Where the goroutine of entry i is ("none" when there is no entry i).
TaskPc(i) == IF i \in Tasks THEN task[i].pc ELSE "none"

Aggregated == mainPc \in {"stats", "index", "done"}

\* The lower-cased texts of the client-authored messages of the readable,
\* parsable transcripts of a folder (the client prefix spelled out here).
ClientTexts(folder) ==
    {ToLower(folder.Files[p[1]].Messages[p[2]].Text) :
        p \in {q \in Positions(folder) :
                 /\ Contains(folder.Files[q[1]].Name, <<"_","c","h","a","t",".","j","s","o","n">>)
                 /\ folder.Files[q[1]].Kind = "json"
                 /\ LET uid == folder.Files[q[1]].Messages[q[2]].UserID
                    IN  Len(uid) >= 5 /\ uid[1] = "u" /\ uid[2] = "s" /\ uid[3] = "e"
                        /\ uid[4] = "r" /\ uid[5] = "_"}}

\* The types some client message of the folder matches.
MatchedTypes(folder) ==
    IF ~(folder.IsDir /\ folder.Listable) THEN {}
    ELSE {t \in TypeKeys : \E text \in ClientTexts(folder) : Len(FindPatternMatches(text, t)) > 0}

\* The folder names in a list of dialogs.
FolderNames(dialogs) == {dialogs[i].FolderName : i \in 1..Len(dialogs)}

RECURSIVE SumMap(_)
SumMap(m) ==
    IF DOMAIN m = {} THEN 0
    ELSE LET k == CHOOSE x \in DOMAIN m : TRUE
         IN  m[k] + SumMap([x \in (DOMAIN m) \ {k} |-> m[x]])

\* ----------------------------------------------------------------- claims

\* C1: once the folders are listed, the run does not deadlock, whatever the
\* number of folders and of non-nil results (more than the channel holds
\* included): every goroutine that has a result to send ends, the channel
\* is closed, the loop over the channel ends and both reports are made.
C1_NoDeadlock ==
    (mainPc = "dispatch") ~>
        (/\ mainPc = "done" /\ printed # <<>> /\ index # <<>>
         /\ closed /\ ch = <<>>
         /\ \A i \in Tasks : root[i].IsDir => task[i].pc = "done")

\* C1 witness: a finished run that received more dialogs than the channel
\* holds.
C1_Witness ==
    /\ mainPc = "done" /\ printed # <<>> /\ index # <<>>
    /\ closed
    /\ Len(received) > ChanCap

\* C2: every directory of the input root is scanned by exactly one
\* goroutine, exactly once, and every non-nil result is received exactly
\* once before the stream ends; entries that are no directories are never
\* scanned.
C2_ExactlyOnce ==
    /\ \A i \in Tasks :
          /\ task[i].scans <= 1
          /\ ~root[i].IsDir => task[i].pc = "none" /\ task[i].scans = 0
          /\ (root[i].IsDir /\ (idx > i) /\ mainPc # "start" /\ mainPc # "list" /\ mainPc # "exit")
                => task[i].pc # "none"
          /\ task[i].pc \in {"send", "done"} <=> task[i].scans = 1
    /\ \A a, b \in 1..Len(received) : received[a] = received[b] => a = b
    /\ \A a \in 1..Len(received) :
          \E i \in Tasks : task[i].pc = "done" /\ task[i].res = <<received[a]>>
    /\ Aggregated =>
          /\ \A i \in Tasks : root[i].IsDir =>
                /\ task[i].scans = 1 /\ task[i].pc = "done"
                /\ task[i].res # <<>> =>
                      Cardinality({a \in 1..Len(received) : received[a] = task[i].res[1]}) = 1
          /\ Len(received) = Cardinality({i \in Tasks : task[i].res # <<>>})

\* C2 witness: the stream has ended with two dialogs received in the
\* reverse of the listing order, and one scanned folder gave no result.
C2_Witness ==
    /\ Aggregated
    /\ Len(received) >= 2
    /\ StrLess(received[2].FolderName, received[1].FolderName)
    /\ \E i \in Tasks : task[i].scans = 1 /\ task[i].res = <<>>

\* C3: once aggregation has finished, a received dialog is in the list of a
\* type exactly when the type is one of its matched types, also in runs
\* where a directory of a dialog could not be made.
C3_ListedIffMatched ==
    Aggregated =>
        \A a \in 1..Len(received) : \A t \in TypeKeys :
            (\E j \in 1..Len(List(allDialogs, t)) : allDialogs[t][j] = received[a])
                <=> t \in Range(received[a].Types)

\* C4: analyzeDialogFolder gives nil exactly when no type is matched by a
\* client message of a readable, parsable transcript; otherwise its types
\* are exactly the matched ones, and after aggregation the folder is in
\* the list of every such type.
C4_MatchedTypesListed ==
    \A i \in Tasks : task[i].scans = 1 =>
        /\ task[i].res = <<>> <=> MatchedTypes(root[i]) = {}
        /\ task[i].res # <<>> => Range(task[i].res[1].Types) = MatchedTypes(root[i])
        /\ Aggregated =>
              \A t \in MatchedTypes(root[i]) : root[i].Name \in FolderNames(List(allDialogs, t))

\* C5: the trigger list of a result holds no two entries equal under case
\* folding; every entry is the first match of its folded form that the scan
\* met, in the casing it had there; the entries are in the order of those
\* first meetings, and every match met is represented.
C5_TriggersFirstSeen ==
    \A i \in Tasks : task[i].res # <<>> =>
        LET T == task[i].res[1].Triggers
            S == task[i].seen
            first(a) == CHOOSE j \in 1..Len(S) :
                            /\ ToLower(S[j]) = ToLower(T[a])
                            /\ \A k \in 1..(j - 1) : ToLower(S[k]) # ToLower(T[a])
        IN  /\ \A a, b \in 1..Len(T) : a # b => ToLower(T[a]) # ToLower(T[b])
            /\ \A a \in 1..Len(T) : \E j \in 1..Len(S) : ToLower(S[j]) = ToLower(T[a])
            /\ \A a \in 1..Len(T) : T[a] = S[first(a)]
            /\ \A a, b \in 1..Len(T) : a < b => first(a) < first(b)
            /\ \A j \in 1..Len(S) : \E a \in 1..Len(T) : ToLower(T[a]) = ToLower(S[j])

\* C5 witness: a result whose scan met the same trigger in two casings and
\* a second, different trigger.
C5_Witness ==
    \E i \in Tasks :
        /\ task[i].res # <<>>
        /\ Len(task[i].res[1].Triggers) >= 2
        /\ \E j, k \in 1..Len(task[i].seen) :
              /\ j < k
              /\ task[i].seen[j] # task[i].seen[k]
              /\ ToLower(task[i].seen[j]) = ToLower(task[i].seen[k])

\* The transcript file names of a folder, in listing order.
RECURSIVE ChatNames(_)
ChatNames(files) ==
    IF files = <<>> THEN <<>>
    ELSE (IF Contains(Head(files).Name, <<"_","c","h","a","t",".","j","s","o","n">>)
          THEN <<Head(files).Name>> ELSE <<>>) \o ChatNames(Tail(files))

\* The ID the first transcript name that carries one gives; the folder name
\* when none does.
FirstExtractedID(folder) ==
    LET names == ChatNames(folder.Files)
        hits == {j \in 1..Len(names) : convFilePattern(names[j]) # <<>>}
    IN  IF hits = {} THEN folder.Name
        ELSE convFilePattern(names[CHOOSE j \in hits : \A k \in hits : j <= k])[2]

\* C6: the dialog ID of a result is the ID of the first transcript file
\* name that matches conv_<ID>_; the folder name only when none matches.
C6_FirstIDWins ==
    \A i \in Tasks : task[i].res # <<>> => task[i].res[1].ID = FirstExtractedID(root[i])

\* C7: after aggregation the sum of the counts, which is the total printed
\* and the total of the index, is at least the number of distinct dialogs
\* received, and equal to it exactly when no received dialog has more than
\* one type.
C7_SumOfCounts ==
    Aggregated =>
        LET n == Cardinality(Range(received))
        IN  /\ SumMap(stats) >= n
            /\ SumMap(stats) = n <=> \A a \in 1..Len(received) : Len(received[a].Types) <= 1
            /\ printed # <<>> => printed[1].total = SumMap(stats)
            /\ index # <<>> => index[1].total = SumMap(stats)

\* C7 witness: a finished run with two dialogs of which one has two types,
\* so that the sum is greater than the number of dialogs.
C7_Witness ==
    /\ mainPc = "done"
    /\ Len(received) >= 2
    /\ \E a, b \in 1..Len(received) : Len(received[a].Types) = 1 /\ Len(received[b].Types) = 2
    /\ index[1].total > Len(received)

\* The directories of the root that match type t.
FoldersMatching(t) == {root[i].Name : i \in {j \in Tasks : t \in MatchedTypes(root[j])}}

\* C8: in a run in which no directory creation failed, the final counts
\* and, per type, the set of dialogs listed are what the input alone
\* determines, whatever the interleaving: the count of a type is the number
\* of folders matching it, and its list holds exactly those folders, each
\* once, with its types.
C8_Deterministic ==
    (Aggregated /\ mkdirFailed = {}) =>
        /\ DOMAIN stats = {t \in TypeKeys : FoldersMatching(t) # {}}
        /\ DOMAIN allDialogs = DOMAIN stats
        /\ \A t \in DOMAIN stats :
              /\ stats[t] = Cardinality(FoldersMatching(t))
              /\ FolderNames(allDialogs[t]) = FoldersMatching(t)
              /\ Len(allDialogs[t]) = Cardinality(FoldersMatching(t))
              /\ \A j \in 1..Len(allDialogs[t]) :
                    \E i \in Tasks :
                        /\ root[i].Name = allDialogs[t][j].FolderName
                        /\ Range(allDialogs[t][j].Types) = MatchedTypes(root[i])

\* C8 witness: a finished run without failures in which the list of a type
\* holds two dialogs in the reverse of the listing order.
C8_Witness ==
    /\ mainPc = "done"
    /\ mkdirFailed = {}
    /\ \E t \in DOMAIN allDialogs :
          /\ Len(allDialogs[t]) >= 2
          /\ StrLess(allDialogs[t][2].FolderName, allDialogs[t][1].FolderName)

\* C9: the trigger frequencies are keyed by the case-folded trigger, and
\* the frequency of a folded trigger is the number of distinct received
\* dialogs whose trigger list holds it, however many types a dialog has.
C9_TriggerFrequency ==
    printed # <<>> =>
        LET holds(d, f) == \E j \in 1..Len(d.Triggers) : ToLower(d.Triggers[j]) = f
            all == UNION {{ToLower(d.Triggers[j]) : j \in 1..Len(d.Triggers)}
                             : d \in Range(received)}
        IN  /\ DOMAIN printed[1].triggerStats = all
            /\ \A f \in all :
                  printed[1].triggerStats[f] = Cardinality({d \in Range(received) : holds(d, f)})

\* C10: a message whose user_id lacks the prefix "user_" marks no type and
\* adds no trigger: every type and every trigger of a result comes from a
\* client message, and a folder without client messages gives nil.
C10_ClientMessagesOnly ==
    \A i \in Tasks : task[i].scans = 1 =>
        /\ ClientTexts(root[i]) = {} => task[i].res = <<>>
        /\ task[i].res # <<>> =>
              /\ \A t \in Range(task[i].res[1].Types) :
                    \E text \in ClientTexts(root[i]) : Len(FindPatternMatches(text, t)) > 0
              /\ \A trig \in Range(task[i].res[1].Triggers) \cup Range(task[i].seen) :
                    \E text \in ClientTexts(root[i]) : \E t \in TypeKeys :
                        trig \in Range(FindPatternMatches(text, t))

\* C10 witness: a scanned folder whose only messages are operator messages
\* that match configured patterns, with a nil result.
C10_Witness ==
    \E i \in Tasks :
        /\ task[i].scans = 1
        /\ task[i].res = <<>>
        /\ root[i].Listable
        /\ ClientTexts(root[i]) = {}
        /\ \E p \in Positions(root[i]) : \E t \in TypeKeys :
              /\ root[i].Files[p[1]].Kind = "json"
              /\ Len(FindPatternMatches(ToLower(root[i].Files[p[1]].Messages[p[2]].Text), t)) > 0

\* The folder without the transcripts that cannot be read or parsed.
Cleaned(folder) ==
    [folder EXCEPT !.Files = SelectSeq(@, LAMBDA f : f.Kind = "json")]

\* What a scan result contributes to the aggregate: its types and triggers.
Contribution(res) ==
    IF res = <<>> THEN <<>> ELSE <<[Types |-> res[1].Types, Triggers |-> res[1].Triggers]>>

\* For every catalogue entry, the contributions a scan of the entry may
\* give when the faulty transcripts are taken out of it beforehand.
CleanContributions ==
    [c \in 1..Len(Catalogue) |-> {Contribution(o.res) : o \in ScanOutcomes(Cleaned(Catalogue[c]))}]

CleanContributionsOf(folder) ==
    CleanContributions[CHOOSE c \in 1..Len(Catalogue) : Catalogue[c] = folder]

\* C11: a recoverable error stays local.  A folder whose files cannot be
\* listed gives no result; a transcript that cannot be read or parsed is
\* skipped and the other transcripts of the folder contribute what they
\* contribute without it; the run goes on, and at the end of the
\* aggregation every folder is counted under exactly the types its own
\* sound transcripts match, and listed under them where its directory
\* could be made.
C11_RecoverableLocal ==
    /\ \A i \in Tasks : task[i].scans = 1 =>
          /\ ~root[i].Listable => task[i].res = <<>>
          /\ Contribution(task[i].res) \in CleanContributionsOf(root[i])
    /\ Aggregated =>
          /\ \A i \in Tasks : root[i].IsDir =>
                /\ task[i].scans = 1
                /\ task[i].res # <<>> => \E a \in 1..Len(received) : received[a] = task[i].res[1]
                /\ \A t \in MatchedTypes(root[i]) :
                      <<t, root[i].Name>> \notin mkdirFailed
                         => root[i].Name \in FolderNames(List(allDialogs, t))
          /\ \A t \in TypeKeys :
                Count(stats, t) = Cardinality({i \in Tasks : t \in MatchedTypes(root[i])})

\* C11 witness: the aggregation is over for a root that holds a folder that
\* cannot be listed, a folder with a transcript that does not parse whose
\* result was received, and a sound folder whose result was received.
C11_Witness ==
    /\ Aggregated
    /\ \E i, j, k \in Tasks :
          /\ root[i].IsDir /\ ~root[i].Listable /\ task[i].scans = 1 /\ task[i].res = <<>>
          /\ \E f \in 1..Len(root[j].Files) : root[j].Files[f].Kind = "garbage"
          /\ task[j].res # <<>> /\ \E a \in 1..Len(received) : received[a] = task[j].res[1]
          /\ root[k].IsDir /\ Cleaned(root[k]) = root[k]
          /\ task[k].res # <<>> /\ \E a \in 1..Len(received) : received[a] = task[k].res[1]

\* The run has produced nothing beyond directories of types: no goroutine
\* was started, nothing was received, counted, listed, written or reported.
NothingDone ==
    /\ \A i \in Tasks : task[i] = NewTask
    /\ wg = 0 /\ closerPc = "none" /\ ch = <<>> /\ ~closed
    /\ received = <<>> /\ dialog = <<>>
    /\ stats = EmptyMap /\ allDialogs = EmptyMap
    /\ outDirs \subseteq {<<k>> : k \in TypeKeys} /\ outFiles = {}
    /\ mkdirFailed = {}
    /\ printed = <<>> /\ index = <<>>

RECURSIVE TypeArrivals(_)
TypeArrivals(dialogs) ==
    IF dialogs = <<>> THEN <<>> ELSE Head(dialogs).Types \o TypeArrivals(Tail(dialogs))

\* The place of the first occurrence of a type in the aggregation.
FirstOccurrence(t) ==
    LET arr == TypeArrivals(received)
    IN  CHOOSE a \in 1..Len(arr) : arr[a] = t /\ \A b \in 1..(a - 1) : arr[b] # t

\* C13 as stated: the ranking of the types is in non-increasing order of
\* the counts, and types of equal count stand in the order of their first
\* occurrence in the aggregation.
C13_TiesInInsertionOrder ==
    printed # <<>> =>
        LET sl == printed[1].statsList
        IN  \A a, b \in 1..Len(sl) : a < b =>
               /\ sl[a].Count >= sl[b].Count
               /\ sl[a].Count = sl[b].Count
                     => FirstOccurrence(sl[a].TypeKey) < FirstOccurrence(sl[b].TypeKey)

\* C13 amended: the ranking holds every counted type once, with its count,
\* in non-increasing order of the counts; the order among types of equal
\* count is not fixed by the arrival order.
C13_RankedByCount ==
    printed # <<>> =>
        LET sl == printed[1].statsList
        IN  /\ {sl[a].TypeKey : a \in 1..Len(sl)} = DOMAIN stats
            /\ Len(sl) = Cardinality(DOMAIN stats)
            /\ \A a \in 1..Len(sl) : sl[a].Count = stats[sl[a].TypeKey]
            /\ \A a, b \in 1..Len(sl) : a < b => sl[a].Count >= sl[b].Count

\* C13 witness: a printed ranking of two types with different counts.
C13_Witness ==
    /\ printed # <<>>
    /\ Len(printed[1].statsList) = 2
    /\ printed[1].statsList[1].Count > printed[1].statsList[2].Count

\* C14: the channel is closed once, by the closer, and only after every scan
\* goroutine has returned (its send, if it had one, done); nothing is sent
\* on the closed channel; the consumer sees the end of the stream only
\* when no goroutine has a send left and every result was received.
C14_CloseAfterAllTasks ==
    /\ []((closed => /\ closerPc = "done" /\ wg = 0
                     /\ \A i \in Tasks : root[i].IsDir => task[i].pc = "done")
          /\ (closerPc = "done" => closed)
          /\ (Aggregated =>
                 /\ closed /\ ch = <<>>
                 /\ \A i \in Tasks :
                       /\ task[i].pc \in {"none", "done"}
                       /\ task[i].res # <<>> =>
                             \E a \in 1..Len(received) : received[a] = task[i].res[1]))
    /\ [][closed' # closed => ~closed /\ closed' /\ closerPc = "wait" /\ closerPc' = "done"]_vars
    /\ [][closerPc = "done" => closerPc' = "done"]_vars
    /\ [][Len(ch') > Len(ch) => ~closed /\ ~closed']_vars

\* C14 witness: the channel is closed with a dialog still in its buffer,
\* after two goroutines sent their results; the consumer has not seen the
\* end of the stream.
C14_Witness ==
    /\ closed /\ Len(ch) > 0 /\ mainPc = "recv"
    /\ \E i, j \in Tasks : i # j /\ task[i].res # <<>> /\ task[j].res # <<>>
                             /\ task[i].pc = "done" /\ task[j].pc = "done"

\* The directories of dialogs (under a type) among the directories made.
DialogDirs == {d \in outDirs : Len(d) = 2}

\* The scanning and the consumption of the stream are over.
StreamExhausted ==
    /\ closed /\ ch = <<>> /\ dialog = <<>>
    /\ \A i \in Tasks : task[i].pc \in {"none", "done"}

C16_ReportsAfterStream ==
    /\ []((Aggregated \/ printed # <<>> \/ index # <<>>) =>
             /\ StreamExhausted
             /\ \A i \in Tasks :
                   /\ root[i].IsDir => task[i].pc = "done"
                   /\ task[i].res # <<>> =>
                         \E a \in 1..Len(received) : received[a] = task[i].res[1])
    /\ [](index # <<>> => printed # <<>>)
    /\ [][(Aggregated \/ printed # <<>> \/ index # <<>>) =>
             UNCHANGED <<stats, allDialogs, received>>]_vars

\* C16 witness: both reports are made, from an aggregate of two dialogs.
C16_Witness ==
    /\ printed # <<>> /\ index # <<>>
    /\ Len(received) >= 2
    /\ printed[1].total = SumMap(stats) /\ index[1].total = SumMap(stats)

\* Some scan goroutine takes a step: it returns from the scan or sends.
TaskStep == \E i \in Tasks : task[i].pc \in {"scan", "send"} /\ task'[i] # task[i]

\* C17: the aggregate has one writer.  Every step that changes the counts or
\* the lists of the types is a step of main inside the loop over the
\* channel, and it touches no goroutine and not the channel; a step of a
\* scan goroutine changes nothing that main owns, and the one thing it does
\* to shared state is to append its own result to the channel; no result
\* is the result of two goroutines.
C17_SingleWriter ==
    /\ [][(stats' # stats \/ allDialogs' # allDialogs) =>
             /\ mainPc = "types" /\ mainPc' = "types"
             /\ UNCHANGED <<task, ch, wg, closed>>]_vars
    /\ [][TaskStep =>
             /\ UNCHANGED <<stats, allDialogs, dialog, typeIdx, received, mainPc,
                            outDirs, outFiles, printed, index, mkdirFailed>>
             /\ \/ ch' = ch
                \/ \E i \in Tasks : /\ task[i].pc = "send" /\ task'[i].pc = "done"
                                     /\ \A j \in Tasks \ {i} : task'[j] = task[j]
                                     /\ ch' = Append(ch, task[i].res[1])]_vars
    /\ [](\A i, j \in Tasks :
             (i # j /\ task[i].res # <<>> /\ task[j].res # <<>>) => task[i].res # task[j].res)

\* C17 witness: main has counted the dialog of one goroutine while another
\* goroutine still holds a result of its own to send.
C17_Witness ==
    /\ DOMAIN stats # {} /\ DOMAIN allDialogs # {}
    /\ \E i, j \in Tasks :
          /\ task[i].pc = "done" /\ task[i].res # <<>>
          /\ task[j].pc = "send" /\ task[j].res # <<>>

\* Every ProblematicDialog a scan has returned so far: held by its
\* goroutine, in the channel, or received.
ReturnedDialogs ==
    {task[i].res[1] : i \in {j \in Tasks : task[j].res # <<>>}}
        \cup Range(ch) \cup Range(received)

\* C18: the matched types of every returned ProblematicDialog are not empty
\* and strictly increasing in the order of strings, whatever the order in
\* which the map of found types was ranged over.
C18_TypesSorted ==
    \A d \in ReturnedDialogs :
        /\ Len(d.Types) > 0
        /\ \A a \in 1..(Len(d.Types) - 1) : StrLess(d.Types[a], d.Types[a + 1])

\* C18 witness: a returned dialog with two matched types.
C18_Witness ==
    \E d \in ReturnedDialogs : Len(d.Types) = 2 /\ d.Types[1] # d.Types[2]

\* C19 (implicit): each time the consumer is done with a received dialog,
\* and at the end of the run, the count of every type is the length of the
\* list of the type, also in runs in which the directory of a dialog
\* cannot be made.
C19_CountsMatchLists ==
    mainPc \in {"recv", "stats", "index", "done"} =>
        \A t \in TypeKeys : Count(stats, t) = Len(List(allDialogs, t))

\* C20: the trigger ranking reports at most TopTriggers triggers, each once
\* and with its frequency, in non-increasing order of frequency, and no
\* trigger left out is more frequent than a reported one; it leaves a
\* trigger out only when TopTriggers are reported.
C20_TopTriggers ==
    printed # <<>> =>
        LET top == printed[1].top
            ts == TriggerStats(allDialogs)
            reported == {top[a].Trigger : a \in 1..Len(top)}
        IN  /\ Len(top) <= TopTriggers
            /\ Len(top) = TopTriggers \/ reported = DOMAIN ts
            /\ reported \subseteq DOMAIN ts
            /\ \A a, b \in 1..Len(top) : top[a].Trigger = top[b].Trigger => a = b
            /\ \A a \in 1..Len(top) : top[a].Count = ts[top[a].Trigger]
            /\ \A a, b \in 1..Len(top) : a < b => top[a].Count >= top[b].Count
            /\ \A u \in (DOMAIN ts) \ reported : \A a \in 1..Len(top) : top[a].Count >= ts[u]

\* C20 witness: there are more distinct triggers than the ranking reports,
\* of different frequencies, and one that is left out.
C20_Witness ==
    /\ printed # <<>>
    /\ Len(printed[1].top) = TopTriggers
    /\ Cardinality(DOMAIN TriggerStats(allDialogs)) > TopTriggers
    /\ printed[1].top[1].Count > printed[1].top[TopTriggers].Count

====
